---- MODULE Spec2Model ----
(***************************************************************************)
(* A model of bevy_edge_detection (src/src/lib.rs): the extract step, the  *)
(* per-frame pipeline resolution (prepare_edge_detection_pipelines), the   *)
(* pipeline specialization cache and the render-graph node                 *)
(* (EdgeDetectionNode::run), driven frame by frame by the render schedule  *)
(* the plugin registers them in (Spec, and SpecLive for frames without an  *)
(* end); the plugin's place in the Core3d render graph (SpecGraph); and    *)
(* the pure conversions, each on its own: key construction (SpecKey), the  *)
(* settings-to-uniform conversion (SpecUniform) and pipeline               *)
(* specialization (SpecSpecialize).                                        *)
(*                                                                         *)
(* Option<T> is modelled as a sequence: <<>> is None, <<x>> is Some(x).    *)
(* f32 values are modelled as integers in thousandths (1.0 is 1000).       *)
(***************************************************************************)
EXTENDS FiniteSets, Integers, Sequences, TLC

\* ------------------------------------------------------------------ bounds

\* Number of views (cameras) carrying the effect.
NumViews == 2

\* Number of frames rendered.
MaxFrames == 2

\* Number of main-world edits of a view (settings or camera state).
MaxEdits == 1

Views == 1..NumViews

None == <<>>

Some(x) == <<x>>

\* -------------------------------------------------------- plugin (lib.rs)

\* The nodes of bevy's Core3d graph that lie around the effect's node.
Node3d ==
    { "EndMainPass", "Bloom", "DepthOfField", "PostProcessing", "Tonemapping",
      "Fxaa", "Smaa", "EndMainPassPostProcessing", "Upscaling" }

\* EdgeDetectionPlugin::default()
EdgeDetectionPlugin_default == [ before |-> "Fxaa" ]

\* ------------------------------------------------------- settings (lib.rs)

\* A mutant of EdgeDetection_default: the colour channel is enabled and the
\* normal threshold is that of the depth channel.
EdgeDetection_default_ColorOn ==
    [ depth_threshold         |-> 1000,
      normal_threshold        |-> 1000,
      color_threshold         |-> 100,
      depth_thickness         |-> 1000,
      normal_thickness        |-> 1000,
      color_thickness         |-> 1000,
      steep_angle_threshold   |-> 0,
      steep_angle_multiplier  |-> 300,
      uv_distortion_frequency |-> <<1000, 1000>>,
      uv_distortion_strength  |-> <<4, 4>>,
      edge_color              |-> [space |-> "LinearRgba", rgba |-> <<0, 0, 0, 1000>>],
      enable_depth            |-> TRUE,
      enable_normal           |-> TRUE,
      enable_color            |-> TRUE ]

\* EdgeDetection::default()
EdgeDetection_default ==
    [ depth_threshold         |-> 1000,
      normal_threshold        |-> 800,
      color_threshold         |-> 100,
      depth_thickness         |-> 1000,
      normal_thickness        |-> 1000,
      color_thickness         |-> 1000,
      steep_angle_threshold   |-> 0,
      steep_angle_multiplier  |-> 300,
      uv_distortion_frequency |-> <<1000, 1000>>,
      uv_distortion_strength  |-> <<4, 4>>,
      edge_color              |-> [space |-> "LinearRgba", rgba |-> <<0, 0, 0, 1000>>],
      enable_depth            |-> TRUE,
      enable_normal           |-> TRUE,
      enable_color            |-> FALSE ]

\* The variants of bevy's Color that are modelled: linear RGB, and sRGB as
\* the one variant whose conversion changes the components.
ColorSpaces == {"LinearRgba", "Srgba"}

\* The sRGB transfer function that Srgba -> LinearRgba applies to a colour
\* component, in thousandths: x / 12.92 up to 0.04045, else
\* ((x + 0.055) / 1.055)^2.4, here at the component values that are drawn.
gamma_function(x) ==
    IF x <= 0 THEN x
    ELSE IF x <= 40 THEN (x * 100) \div 1292
    ELSE CASE x = 200  -> 33
           [] x = 500  -> 214
           [] x = 1000 -> 1000

\* ed.edge_color.into(): Color -> LinearRgba.  Alpha is never converted.
Color_into_LinearRgba(color) ==
    IF color.space = "LinearRgba"
    THEN color.rgba
    ELSE << gamma_function(color.rgba[1]), gamma_function(color.rgba[2]),
            gamma_function(color.rgba[3]), color.rgba[4] >>

\* A mutant of EdgeDetectionUniform_from: the colour's components are copied
\* without regard to its colour space.
EdgeDetectionUniform_from_CopyColor(ed) ==
    [ depth_threshold        |-> ed.depth_threshold,
      normal_threshold       |-> ed.normal_threshold,
      color_threshold        |-> ed.color_threshold,
      depth_thickness        |-> ed.depth_thickness,
      normal_thickness       |-> ed.normal_thickness,
      color_thickness        |-> ed.color_thickness,
      steep_angle_threshold  |-> ed.steep_angle_threshold,
      steep_angle_multiplier |-> ed.steep_angle_multiplier,
      uv_distortion          |-> << ed.uv_distortion_frequency[1],
                                    ed.uv_distortion_frequency[2],
                                    ed.uv_distortion_strength[1],
                                    ed.uv_distortion_strength[2] >>,
      edge_color             |-> ed.edge_color.rgba ]

\* impl From<&EdgeDetection> for EdgeDetectionUniform
EdgeDetectionUniform_from(ed) ==
    [ depth_threshold        |-> ed.depth_threshold,
      normal_threshold       |-> ed.normal_threshold,
      color_threshold        |-> ed.color_threshold,
      depth_thickness        |-> ed.depth_thickness,
      normal_thickness       |-> ed.normal_thickness,
      color_thickness        |-> ed.color_thickness,
      steep_angle_threshold  |-> ed.steep_angle_threshold,
      steep_angle_multiplier |-> ed.steep_angle_multiplier,
      uv_distortion          |-> << ed.uv_distortion_frequency[1],
                                    ed.uv_distortion_frequency[2],
                                    ed.uv_distortion_strength[1],
                                    ed.uv_distortion_strength[2] >>,
      edge_color             |-> Color_into_LinearRgba(ed.edge_color) ]

\* ------------------------------------------------------------ pipeline key

\* The variants of bevy's Projection that the match in
\* ProjectionType::from distinguishes.
ProjectionVariants == {"Perspective", "Orthographic", "Custom"}

\* Option<&Projection>
ProjectionInputs == {None} \cup {Some(p) : p \in ProjectionVariants}

\* enum ProjectionType
ProjectionType == {"None", "Perspective", "Orthographic"}

\* A mutant of ProjectionType_from: the Custom arm falls through to None.
ProjectionType_from_CustomIsNone(proj) ==
    IF proj # None /\ proj[1] \in {"Perspective", "Orthographic"}
    THEN Some(proj[1])
    ELSE Some("None")

\* impl From<Option<&Projection>> for ProjectionType.  The result is
\* Some(type), or None when the conversion panics.
ProjectionType_from(proj) ==
    IF proj # None
    THEN CASE proj[1] = "Perspective"  -> Some("Perspective")
           [] proj[1] = "Orthographic" -> Some("Orthographic")
           [] proj[1] = "Custom"       -> None
    ELSE Some("None")

\* A mutant of EdgeDetectionKey_new: enable_color is not carried into the key.
EdgeDetectionKey_new_DropColor(edge_detection, hdr, multisampled, projection) ==
    IF ProjectionType_from(projection) = None
    THEN None
    ELSE Some([ enable_depth  |-> edge_detection.enable_depth,
                enable_normal |-> edge_detection.enable_normal,
                enable_color  |-> FALSE,
                hdr           |-> hdr,
                multisampled  |-> multisampled,
                projection    |-> ProjectionType_from(projection)[1] ])

\* A mutant of EdgeDetectionKey_new: the HDR flag is not carried into the key.
EdgeDetectionKey_new_DropHdr(edge_detection, hdr, multisampled, projection) ==
    IF ProjectionType_from(projection) = None
    THEN None
    ELSE Some([ enable_depth  |-> edge_detection.enable_depth,
                enable_normal |-> edge_detection.enable_normal,
                enable_color  |-> edge_detection.enable_color,
                hdr           |-> FALSE,
                multisampled  |-> multisampled,
                projection    |-> ProjectionType_from(projection)[1] ])

\* EdgeDetectionKey::new.  Some(key), or None when projection.into() panics
\* (the struct expression is never completed).
EdgeDetectionKey_new(edge_detection, hdr, multisampled, projection) ==
    IF ProjectionType_from(projection) = None
    THEN None
    ELSE Some([ enable_depth  |-> edge_detection.enable_depth,
                enable_normal |-> edge_detection.enable_normal,
                enable_color  |-> edge_detection.enable_color,
                hdr           |-> hdr,
                multisampled  |-> multisampled,
                projection    |-> ProjectionType_from(projection)[1] ])

\* EdgeDetectionPipeline::bind_group_layout
bind_group_layout(multisampled) ==
    IF multisampled THEN "layout_with_msaa" ELSE "layout_without_msaa"

\* The slots of both bind-group layouts, in their sequential order.
BindGroupLayoutSlots ==
    << "color", "depth", "normal", "linear_sampler",
       "noise_texture", "noise_sampler", "view_uniform", "effect_uniform" >>

\* A mutant of EdgeDetectionPipeline_specialize: the layout without msaa is
\* used whatever the key says.
EdgeDetectionPipeline_specialize_FixedLayout(key) ==
    [ format        |-> IF key.hdr THEN "TEXTURE_FORMAT_HDR" ELSE "bevy_default",
      shader_defs   |->
          (IF key.enable_depth THEN <<"ENABLE_DEPTH">> ELSE <<>>)
          \o (IF key.enable_normal THEN <<"ENABLE_NORMAL">> ELSE <<>>)
          \o (IF key.enable_color THEN <<"ENABLE_COLOR">> ELSE <<>>)
          \o (IF key.multisampled THEN <<"MULTISAMPLED">> ELSE <<>>)
          \o (CASE key.projection = "Perspective"  -> <<"VIEW_PROJECTION_PERSPECTIVE">>
                [] key.projection = "Orthographic" -> <<"VIEW_PROJECTION_ORTHOGRAPHIC">>
                [] OTHER                           -> <<>>),
      layout        |-> <<bind_group_layout(FALSE)>>,
      depth_stencil |-> None ]

\* impl SpecializedRenderPipeline for EdgeDetectionPipeline: specialize
EdgeDetectionPipeline_specialize(key) ==
    [ format        |-> IF key.hdr THEN "TEXTURE_FORMAT_HDR" ELSE "bevy_default",
      shader_defs   |->
          (IF key.enable_depth THEN <<"ENABLE_DEPTH">> ELSE <<>>)
          \o (IF key.enable_normal THEN <<"ENABLE_NORMAL">> ELSE <<>>)
          \o (IF key.enable_color THEN <<"ENABLE_COLOR">> ELSE <<>>)
          \o (IF key.multisampled THEN <<"MULTISAMPLED">> ELSE <<>>)
          \o (CASE key.projection = "Perspective"  -> <<"VIEW_PROJECTION_PERSPECTIVE">>
                [] key.projection = "Orthographic" -> <<"VIEW_PROJECTION_ORTHOGRAPHIC">>
                [] OTHER                           -> <<>>),
      layout        |-> <<bind_group_layout(key.multisampled)>>,
      depth_stencil |-> None ]

\* ------------------------------------------------------------------- state

VARIABLES
    supported,             \* DEPTH_TEXTURE_SAMPLING_SUPPORTED of this build
    main,                  \* main world: per view, settings and camera state
    rview,                 \* render world: per view, extracted hdr/msaa/projection
    rsettings,             \* render world: per view, Option<EdgeDetection>
    runiform,              \* render world: per view, Option<EdgeDetectionUniform>
    uniform_index,         \* per view, Option<DynamicUniformIndex<EdgeDetectionUniform>>
    pipeline_id,           \* per view, Option<EdgeDetectionPipelineId>
    prepass,               \* per view, ViewPrepassTextures {depth, normal} present
    view_target,           \* per view, ViewTarget's main_texture (0: a, 1: b)
    entry_texture,         \* per view, main_texture when the node was reached
    noise_loaded,          \* RenderAssets<GpuImage> holds the noise texture
    view_uniforms_binding, \* ViewUniforms.uniforms.binding() is Some
    ed_uniforms_binding,   \* ComponentUniforms<EdgeDetectionUniform> binding is Some
    pipelines,             \* SpecializedRenderPipelines<EdgeDetectionPipeline>: {key, id}
    pipeline_cache,        \* PipelineCache: sequence of queued pipelines, id = index
    requests,              \* log of the specialize calls made by the prepare step
    node,                  \* per view, what the node recorded in this frame
    phase,                 \* the step of the render schedule that runs next
    frame,                 \* the frame being rendered (0 before the first)
    prepared_frame,        \* the frame whose prepare step completed last
    edits,                 \* number of main-world edits made
    panicked,              \* the render schedule unwound with a panic
    fn_args,               \* arguments of the pure function under check
    fn_out,                \* its results, once applied
    plugin,                \* the EdgeDetectionPlugin the app was built with
    graph_run              \* the nodes of Core3d run so far in this frame, in order

\* The main world.
main_vars == << main, edits >>

\* The render-world components of the views.
view_vars == << rview, rsettings, runiform, uniform_index, pipeline_id >>

\* The resources the node resolves.
resource_vars == << noise_loaded, view_uniforms_binding, ed_uniforms_binding >>

\* The per-view textures and the record of the node's run.
graph_vars == << prepass, view_target, entry_texture, node >>

\* The specializer and the pipeline cache.
cache_vars == << pipelines, pipeline_cache, requests >>

\* The position in the schedule.
schedule_vars == << phase, frame, prepared_frame, panicked >>

\* The pure-function harness.
fn_vars == << fn_args, fn_out >>

\* The plugin's configuration and the run of the render graph.
graph_run_vars == << plugin, graph_run >>

vars ==
    << supported, main_vars, view_vars, resource_vars, graph_vars, cache_vars,
       schedule_vars, fn_vars, graph_run_vars >>

\* ---------------------------------------------------------------- inputs

\* Msaa values; multisampled is *msaa != Msaa::Off.
MsaaValues == {"Off", "Sample4"}

\* The settings a caller attaches or edits to: the default, the default with
\* every channel disabled, and the default with a threshold and the colour
\* channel changed.
SettingsChoices ==
    { EdgeDetection_default,
      [EdgeDetection_default EXCEPT !.enable_depth = FALSE, !.enable_normal = FALSE],
      [EdgeDetection_default EXCEPT !.depth_threshold = 500, !.enable_color = TRUE] }

DefaultView ==
    [ settings   |-> EdgeDetection_default,
      hdr        |-> FALSE,
      msaa       |-> "Sample4",
      projection |-> Some("Perspective") ]

\* The views a session starts with.
InitViews == { DefaultView }

\* ViewPrepassTextures with neither texture.
NoTextures == [depth |-> FALSE, normal |-> FALSE]

PendingNode ==
    [ state |-> "pending", result |-> "none", flips |-> 0,
      bind_groups |-> <<>>, passes |-> <<>> ]

\* --------------------------------------------------------- render schedule

\* A mutant of RenderSchedule: the render graph runs before the prepare step.
RenderSchedule_GraphBeforePrepare ==
    << "Extract", "PrepareResources", "Render", "Prepare", "ProcessQueue" >>

\* EdgeDetectionPlugin::build: the extract system in ExtractSchedule, the
\* prepare system in RenderSet::Prepare, the node in the render graph (run in
\* RenderSet::Render after the pipeline queue is processed).
RenderSchedule ==
    << "Extract", "PrepareResources", "Prepare", "ProcessQueue", "Render" >>

PhaseIndex(p) == CHOOSE i \in 1..Len(RenderSchedule) : RenderSchedule[i] = p

NextPhase(p) ==
    IF PhaseIndex(p) = Len(RenderSchedule)
    THEN RenderSchedule[1]
    ELSE RenderSchedule[PhaseIndex(p) + 1]

\* The schedule moves to its next step.
Advance == phase' = NextPhase(phase)

\* ---------------------------------------------------------- pipeline cache

\* The ids of the queued pipelines that were compiled from this descriptor.
CompiledFrom(cache, descriptor) ==
    { i \in DOMAIN cache : cache[i].descriptor = descriptor }

\* A mutant of SpecializeRequest: the specializer keeps the entry of the last
\* key only; a new key evicts the one before.
SpecializeRequest_Evicting(specialized, cache, key) ==
    IF \E e \in specialized : e.key = key
    THEN [ pipelines      |-> specialized,
           pipeline_cache |-> cache,
           id             |-> (CHOOSE e \in specialized : e.key = key).id ]
    ELSE [ pipelines      |-> {[key |-> key, id |-> Len(cache) + 1]},
           pipeline_cache |-> Append(cache, [ descriptor |-> EdgeDetectionPipeline_specialize(key),
                                              state      |-> "Queued" ]),
           id             |-> Len(cache) + 1 ]

\* A mutant of SpecializeRequest: the prepare step queues the descriptor with
\* the pipeline cache directly instead of going through the specializer.
SpecializeRequest_AlwaysQueue(specialized, cache, key) ==
    [ pipelines      |-> specialized \cup {[key |-> key, id |-> Len(cache) + 1]},
      pipeline_cache |-> Append(cache, [ descriptor |-> EdgeDetectionPipeline_specialize(key),
                                         state      |-> "Queued" ]),
      id             |-> Len(cache) + 1 ]

\* pipelines.specialize(&pipeline_cache, &edge_detection_pipeline, key) as
\* the prepare step calls it: the handle cached for an equal key, else the
\* descriptor of specialize(key) is queued for compilation and its new handle
\* is cached under the key.
SpecializeRequest(specialized, cache, key) ==
    IF \E e \in specialized : e.key = key
    THEN [ pipelines      |-> specialized,
           pipeline_cache |-> cache,
           id             |-> (CHOOSE e \in specialized : e.key = key).id ]
    ELSE [ pipelines      |-> specialized \cup {[key |-> key, id |-> Len(cache) + 1]},
           pipeline_cache |-> Append(cache, [ descriptor |-> EdgeDetectionPipeline_specialize(key),
                                              state      |-> "Queued" ]),
           id             |-> Len(cache) + 1 ]

\* world.resource::<PipelineCache>().get_render_pipeline(id): Some only once
\* the queued pipeline is compiled.
get_render_pipeline(id) ==
    IF pipeline_cache[id].state = "Ok" THEN Some(id) ELSE None

\* ---------------------------------------------------------------- extract

\* A mutant of extract_edge_detection_settings: the capability gate is not
\* consulted.
extract_edge_detection_settings_NoGate ==
    [ settings |-> [v \in Views |-> Some(main[v].settings)],
      uniform  |-> [v \in Views |-> Some(EdgeDetectionUniform_from(main[v].settings))] ]

\* EdgeDetectionUniform::extract_edge_detection_settings: the components the
\* render-world views carry after the system's commands are applied.
extract_edge_detection_settings ==
    IF ~supported
    THEN [ settings |-> rsettings, uniform |-> runiform ]
    ELSE [ settings |-> [v \in Views |-> Some(main[v].settings)],
           uniform  |-> [v \in Views |-> Some(EdgeDetectionUniform_from(main[v].settings))] ]

\* The extract schedule of a new frame: the engine extracts each camera's hdr
\* flag, Msaa and Projection, the effect's extract system runs, and the frame
\* starts with fresh view targets, prepass textures not yet rendered and
\* nothing recorded.
Extract ==
    /\ ~panicked
    /\ phase = "Extract"
    /\ frame < MaxFrames
    /\ frame' = frame + 1
    /\ rview' = [v \in Views |-> [ hdr        |-> main[v].hdr,
                                   msaa       |-> main[v].msaa,
                                   projection |-> main[v].projection ]]
    /\ rsettings' = extract_edge_detection_settings.settings
    /\ runiform' = extract_edge_detection_settings.uniform
    /\ node' = [v \in Views |-> PendingNode]
    /\ prepass' = [v \in Views |-> NoTextures]
    /\ view_target' = [v \in Views |-> 0]
    /\ entry_texture' = [v \in Views |-> 0]
    /\ Advance
    /\ UNCHANGED << supported, main_vars, uniform_index, pipeline_id,
                    resource_vars, cache_vars, prepared_frame, panicked,
                    fn_vars, graph_run_vars >>

\* The engine's resource preparation that the node depends on: the noise
\* texture asset, the two uniform buffers (once allocated they stay), and a
\* DynamicUniformIndex for every view that carries an EdgeDetectionUniform
\* (UniformComponentPlugin).
PrepareResources ==
    /\ ~panicked
    /\ phase = "PrepareResources"
    /\ noise_loaded' \in {noise_loaded, TRUE}
    /\ view_uniforms_binding' \in {view_uniforms_binding, TRUE}
    /\ ed_uniforms_binding' \in {ed_uniforms_binding, TRUE}
    /\ uniform_index' = [v \in Views |->
                            IF runiform[v] # None THEN Some(v) ELSE uniform_index[v]]
    /\ Advance
    /\ UNCHANGED << supported, main_vars, rview, rsettings, runiform,
                    pipeline_id, graph_vars, cache_vars, frame,
                    prepared_frame, panicked, fn_vars, graph_run_vars >>

\* ---------------------------------------------------------------- prepare

\* A mutant of prepare_view: a view with no channel enabled is passed over.
prepare_view_SkipDisabled(v, st) ==
    LET ed  == rsettings[v][1]
        key == EdgeDetectionKey_new(ed, rview[v].hdr, rview[v].msaa # "Off",
                                    rview[v].projection)
    IN  IF ~(ed.enable_depth \/ ed.enable_normal \/ ed.enable_color)
        THEN st
        ELSE IF key = None
        THEN [st EXCEPT !.panicked = TRUE]
        ELSE LET r == SpecializeRequest(st.pipelines, st.pipeline_cache, key[1])
             IN  [ pipelines      |-> r.pipelines,
                   pipeline_cache |-> r.pipeline_cache,
                   ids            |-> [st.ids EXCEPT ![v] = Some(r.id)],
                   requests       |-> Append(st.requests,
                                        [ frame |-> frame, view |-> v,
                                          key |-> key[1], id |-> r.id ]),
                   panicked       |-> FALSE ]

\* A mutant of prepare_view: the key is built from the settings the caller's
\* view carries now, not from the extracted ones.
prepare_view_LiveSettings(v, st) ==
    LET key == EdgeDetectionKey_new(main[v].settings, rview[v].hdr,
                                    rview[v].msaa # "Off", rview[v].projection)
    IN  IF key = None
        THEN [st EXCEPT !.panicked = TRUE]
        ELSE LET r == SpecializeRequest(st.pipelines, st.pipeline_cache, key[1])
             IN  [ pipelines      |-> r.pipelines,
                   pipeline_cache |-> r.pipeline_cache,
                   ids            |-> [st.ids EXCEPT ![v] = Some(r.id)],
                   requests       |-> Append(st.requests,
                                        [ frame |-> frame, view |-> v,
                                          key |-> key[1], id |-> r.id ]),
                   panicked       |-> FALSE ]

\* A mutant of prepare_view: the handle is inserted only on a view that
\* carries none yet (insert_if_new in place of insert).
prepare_view_KeepHandle(v, st) ==
    LET key == EdgeDetectionKey_new(rsettings[v][1], rview[v].hdr,
                                    rview[v].msaa # "Off", rview[v].projection)
    IN  IF key = None
        THEN [st EXCEPT !.panicked = TRUE]
        ELSE LET r == SpecializeRequest(st.pipelines, st.pipeline_cache, key[1])
             IN  [ pipelines      |-> r.pipelines,
                   pipeline_cache |-> r.pipeline_cache,
                   ids            |-> IF st.ids[v] # None
                                      THEN st.ids
                                      ELSE [st.ids EXCEPT ![v] = Some(r.id)],
                   requests       |-> Append(st.requests,
                                        [ frame |-> frame, view |-> v,
                                          key |-> key[1], id |-> r.id ]),
                   panicked       |-> FALSE ]

\* A mutant of prepare_view: a view that already carries a pipeline handle is
\* not prepared again.
prepare_view_OnlyOnce(v, st) ==
    LET key == EdgeDetectionKey_new(rsettings[v][1], rview[v].hdr,
                                    rview[v].msaa # "Off", rview[v].projection)
    IN  IF st.ids[v] # None
        THEN st
        ELSE IF key = None
        THEN [st EXCEPT !.panicked = TRUE]
        ELSE LET r == SpecializeRequest(st.pipelines, st.pipeline_cache, key[1])
             IN  [ pipelines      |-> r.pipelines,
                   pipeline_cache |-> r.pipeline_cache,
                   ids            |-> [st.ids EXCEPT ![v] = Some(r.id)],
                   requests       |-> Append(st.requests,
                                        [ frame |-> frame, view |-> v,
                                          key |-> key[1], id |-> r.id ]),
                   panicked       |-> FALSE ]

\* The body of the loop of prepare_edge_detection_pipelines for one view the
\* query matches.  st holds the specializer's cache, the pipeline cache, the
\* handles inserted so far, the log of specialize calls and whether a panic
\* unwound the loop.  The key is built before specialize is called, so a
\* panic in EdgeDetectionKey::new leaves st as it was.
prepare_view(v, st) ==
    LET key == EdgeDetectionKey_new(rsettings[v][1], rview[v].hdr,
                                    rview[v].msaa # "Off", rview[v].projection)
    IN  IF key = None
        THEN [st EXCEPT !.panicked = TRUE]
        ELSE LET r == SpecializeRequest(st.pipelines, st.pipeline_cache, key[1])
             IN  [ pipelines      |-> r.pipelines,
                   pipeline_cache |-> r.pipeline_cache,
                   ids            |-> [st.ids EXCEPT ![v] = Some(r.id)],
                   requests       |-> Append(st.requests,
                                        [ frame |-> frame, view |-> v,
                                          key |-> key[1], id |-> r.id ]),
                   panicked       |-> FALSE ]

\* The loop over the views the query matches (those carrying an extracted
\* EdgeDetection), from view v on.
RECURSIVE prepare_loop(_, _)
prepare_loop(v, st) ==
    IF v > NumViews \/ st.panicked
    THEN st
    ELSE IF rsettings[v] = None
    THEN prepare_loop(v + 1, st)
    ELSE prepare_loop(v + 1, prepare_view(v, st))

\* prepare_edge_detection_pipelines, with its commands applied.  A panic
\* unwinds the schedule: the inserts queued as commands are never applied.
prepare_edge_detection_pipelines ==
    /\ ~panicked
    /\ phase = "Prepare"
    /\ LET st == prepare_loop(1, [ pipelines      |-> pipelines,
                                   pipeline_cache |-> pipeline_cache,
                                   ids            |-> pipeline_id,
                                   requests       |-> requests,
                                   panicked       |-> FALSE ])
       IN  /\ pipelines' = st.pipelines
           /\ pipeline_cache' = st.pipeline_cache
           /\ requests' = st.requests
           /\ panicked' = st.panicked
           /\ IF st.panicked
              THEN UNCHANGED << pipeline_id, phase, prepared_frame >>
              ELSE /\ pipeline_id' = st.ids
                   /\ prepared_frame' = frame
                   /\ Advance
    /\ UNCHANGED << supported, main_vars, rview, rsettings, runiform,
                    uniform_index, resource_vars, graph_vars, frame, fn_vars,
                    graph_run_vars >>

\* PipelineCache::process_queue: some of the queued pipelines finish
\* compiling.
ProcessQueue ==
    /\ ~panicked
    /\ phase = "ProcessQueue"
    /\ \E ready \in SUBSET { i \in DOMAIN pipeline_cache : pipeline_cache[i].state = "Queued" } :
          pipeline_cache' = [i \in DOMAIN pipeline_cache |->
                                IF i \in ready
                                THEN [pipeline_cache[i] EXCEPT !.state = "Ok"]
                                ELSE pipeline_cache[i]]
    /\ Advance
    /\ UNCHANGED << supported, main_vars, view_vars, resource_vars, graph_vars,
                    pipelines, requests, frame, prepared_frame, panicked,
                    fn_vars, graph_run_vars >>

\* ------------------------------------------------------------------- node

\* The two main textures of a view's ViewTarget.
MainTexture(v, i) == [view |-> v, texture |-> IF i = 0 THEN "a" ELSE "b"]

\* ViewTarget::post_process_write: flips main_texture and returns the texture
\* that was current as source and the other one as destination.
post_process_write(v, main_texture) ==
    [ main_texture |-> 1 - main_texture,
      source       |-> MainTexture(v, main_texture),
      destination  |-> MainTexture(v, 1 - main_texture) ]

\* A mutant of ViewUniformOffset: every view selects the first slice.
ViewUniformOffset_First(v) == 1

\* ViewUniformOffset of a view: its slice of the shared view-uniform buffer.
ViewUniformOffset(v) == v

\* What a run that returns early leaves behind.
SkipRun(v, main_texture) ==
    [ state |-> "skip", result |-> "Ok", main_texture |-> main_texture,
      flips |-> 0, bind_groups |-> <<>>, passes |-> <<>> ]

\* A mutant of BindGroup: the bind group built for the first main texture is
\* kept and used again.
BindGroup_Cached(v, source) ==
    [ layout  |-> bind_group_layout(rview[v].msaa # "Off"),
      entries |-> << MainTexture(v, 0), "depth_prepass", "normal_prepass",
                     "linear_sampler", "noise_texture", "noise_sampler",
                     "view_uniforms_binding", "ed_uniform_binding" >> ]

\* A mutant of BindGroup: the two samplers are bound in each other's slot.
BindGroup_SwappedSamplers(v, source) ==
    [ layout  |-> bind_group_layout(rview[v].msaa # "Off"),
      entries |-> << source, "depth_prepass", "normal_prepass", "noise_sampler",
                     "noise_texture", "linear_sampler", "view_uniforms_binding",
                     "ed_uniform_binding" >> ]

\* The bind group of a run, built from the layout for the view's Msaa and the
\* 8 resources in the order of BindGroupEntries::sequential.
BindGroup(v, source) ==
    [ layout  |-> bind_group_layout(rview[v].msaa # "Off"),
      entries |-> << source, "depth_prepass", "normal_prepass", "linear_sampler",
                     "noise_texture", "noise_sampler", "view_uniforms_binding",
                     "ed_uniform_binding" >> ]

\* A mutant of FullscreenDraw: a quad of two triangles is drawn.
FullscreenDraw_Quad == [ vertices |-> <<0, 6>>, instances |-> <<0, 1>>, indexed |-> FALSE ]

\* The one draw of the pass: 3 vertices, 1 instance, no index buffer.
FullscreenDraw == [ vertices |-> <<0, 3>>, instances |-> <<0, 1>>, indexed |-> FALSE ]

\* A mutant of DrawRun: the render pass is opened on the source texture.
DrawRun_WriteSource(v, main_texture, pipeline) ==
    LET post_process == post_process_write(v, main_texture)
        bind_group   == BindGroup(v, post_process.source)
        render_pass  ==
            [ color_attachments        |-> << post_process.source >>,
              depth_stencil_attachment |-> None,
              pipeline                 |-> pipeline,
              bind_group               |-> bind_group,
              dynamic_offsets          |-> << ViewUniformOffset(v), uniform_index[v][1] >>,
              draws                    |-> << FullscreenDraw >> ]
    IN  [ state |-> "done", result |-> "Ok",
          main_texture |-> post_process.main_texture, flips |-> 1,
          bind_groups |-> << bind_group >>, passes |-> << render_pass >> ]

\* The tail of EdgeDetectionNode::run once every resource is resolved: the
\* post-process write, the bind group, the render pass and the draw.
DrawRun(v, main_texture, pipeline) ==
    LET post_process == post_process_write(v, main_texture)
        bind_group   == BindGroup(v, post_process.source)
        render_pass  ==
            [ color_attachments        |-> << post_process.destination >>,
              depth_stencil_attachment |-> None,
              pipeline                 |-> pipeline,
              bind_group               |-> bind_group,
              dynamic_offsets          |-> << ViewUniformOffset(v), uniform_index[v][1] >>,
              draws                    |-> << FullscreenDraw >> ]
    IN  [ state |-> "done", result |-> "Ok",
          main_texture |-> post_process.main_texture, flips |-> 1,
          bind_groups |-> << bind_group >>, passes |-> << render_pass >> ]

\* A mutant of EdgeDetectionNode_run: while the pipeline is not compiled the
\* run does not return; the node stays where it is and looks again.
EdgeDetectionNode_run_WaitForPipeline(v, prepass_textures, main_texture) ==
    IF get_render_pipeline(pipeline_id[v][1]) = None
    THEN [ SkipRun(v, main_texture) EXCEPT !.state = "pending", !.result = "none" ]
    ELSE IF ~(prepass_textures.depth /\ prepass_textures.normal) THEN SkipRun(v, main_texture)
    ELSE IF ~noise_loaded THEN SkipRun(v, main_texture)
    ELSE IF ~view_uniforms_binding THEN SkipRun(v, main_texture)
    ELSE IF ~ed_uniforms_binding THEN SkipRun(v, main_texture)
    ELSE DrawRun(v, main_texture, get_render_pipeline(pipeline_id[v][1])[1])

\* A mutant of EdgeDetectionNode_run: the prepass textures are not checked.
EdgeDetectionNode_run_NoPrepassCheck(v, prepass_textures, main_texture) ==
    IF get_render_pipeline(pipeline_id[v][1]) = None THEN SkipRun(v, main_texture)
    ELSE IF ~noise_loaded THEN SkipRun(v, main_texture)
    ELSE IF ~view_uniforms_binding THEN SkipRun(v, main_texture)
    ELSE IF ~ed_uniforms_binding THEN SkipRun(v, main_texture)
    ELSE DrawRun(v, main_texture, get_render_pipeline(pipeline_id[v][1])[1])

\* A mutant of EdgeDetectionNode_run: the post-process write is started
\* before the resources are resolved.
EdgeDetectionNode_run_WriteFirst(v, prepass_textures, main_texture) ==
    LET flipped == [ SkipRun(v, main_texture) EXCEPT
                       !.main_texture = post_process_write(v, main_texture).main_texture,
                       !.flips = 1 ]
    IN  IF get_render_pipeline(pipeline_id[v][1]) = None THEN flipped
        ELSE IF ~(prepass_textures.depth /\ prepass_textures.normal) THEN flipped
        ELSE IF ~noise_loaded THEN flipped
        ELSE IF ~view_uniforms_binding THEN flipped
        ELSE IF ~ed_uniforms_binding THEN flipped
        ELSE DrawRun(v, main_texture, get_render_pipeline(pipeline_id[v][1])[1])

\* EdgeDetectionNode::run for view v, given its prepass textures and its view
\* target's main texture: the early returns in the order of the code, then
\* the draw.
EdgeDetectionNode_run(v, prepass_textures, main_texture) ==
    IF get_render_pipeline(pipeline_id[v][1]) = None THEN SkipRun(v, main_texture)
    ELSE IF ~(prepass_textures.depth /\ prepass_textures.normal) THEN SkipRun(v, main_texture)
    ELSE IF ~noise_loaded THEN SkipRun(v, main_texture)
    ELSE IF ~view_uniforms_binding THEN SkipRun(v, main_texture)
    ELSE IF ~ed_uniforms_binding THEN SkipRun(v, main_texture)
    ELSE DrawRun(v, main_texture, get_render_pipeline(pipeline_id[v][1])[1])

\* ViewNode::ViewQuery: the node runs only for a view that carries every
\* queried component.
ViewQuery_matches(v) == uniform_index[v] # None /\ pipeline_id[v] # None

\* The render graph of view v reaches the effect's node and the view query
\* matches.  The nodes upstream have left the view's prepass textures
\* (textures) and its view target (current: the main texture after their
\* post-process writes); ViewNodeRunner<EdgeDetectionNode> runs the node.
RunNode(v) ==
    /\ ~panicked
    /\ phase = "Render"
    /\ node[v].state = "pending"
    /\ ViewQuery_matches(v)
    /\ \E textures \in [depth : BOOLEAN, normal : BOOLEAN], current \in {0, 1} :
          LET r == EdgeDetectionNode_run(v, textures, current)
          IN  /\ prepass' = [prepass EXCEPT ![v] = textures]
              /\ entry_texture' = [entry_texture EXCEPT ![v] = current]
              /\ view_target' = [view_target EXCEPT ![v] = r.main_texture]
              /\ node' = [node EXCEPT ![v] =
                            [ state |-> r.state, result |-> r.result,
                              flips |-> r.flips, bind_groups |-> r.bind_groups,
                              passes |-> r.passes ]]
    /\ UNCHANGED << supported, main_vars, view_vars, resource_vars, cache_vars,
                    schedule_vars, fn_vars, graph_run_vars >>

\* The render graph of view v reaches the effect's node and the view query
\* does not match: ViewNodeRunner returns without running the node.
PassNode(v) ==
    /\ ~panicked
    /\ phase = "Render"
    /\ node[v].state = "pending"
    /\ ~ViewQuery_matches(v)
    /\ node' = [node EXCEPT ![v].state = "norun"]
    /\ UNCHANGED << supported, main_vars, view_vars, resource_vars, prepass,
                    view_target, entry_texture, cache_vars, schedule_vars,
                    fn_vars, graph_run_vars >>

\* The render graph has visited every view.
FinishGraph ==
    /\ ~panicked
    /\ phase = "Render"
    /\ \A v \in Views : node[v].state # "pending"
    /\ Advance
    /\ UNCHANGED << supported, main_vars, view_vars, resource_vars, graph_vars,
                    cache_vars, frame, prepared_frame, panicked, fn_vars,
                    graph_run_vars >>

\* ------------------------------------------------------------- main world

\* The caller replaces the settings of a view.
EditSettings(v) ==
    /\ ~panicked
    /\ edits < MaxEdits
    /\ \E s \in SettingsChoices \ {main[v].settings} :
          main' = [main EXCEPT ![v].settings = s]
    /\ edits' = edits + 1
    /\ UNCHANGED << supported, view_vars, resource_vars, graph_vars, cache_vars,
                    schedule_vars, fn_vars, graph_run_vars >>

\* The caller changes the camera of a view: its HDR flag, its Msaa or its
\* projection.
EditCamera(v) ==
    /\ ~panicked
    /\ edits < MaxEdits
    /\ \/ main' = [main EXCEPT ![v].hdr = ~main[v].hdr]
       \/ \E m \in MsaaValues \ {main[v].msaa} : main' = [main EXCEPT ![v].msaa = m]
       \/ \E p \in ProjectionInputs \ {main[v].projection} :
             main' = [main EXCEPT ![v].projection = p]
    /\ edits' = edits + 1
    /\ UNCHANGED << supported, view_vars, resource_vars, graph_vars, cache_vars,
                    schedule_vars, fn_vars, graph_run_vars >>

\* ---------------------------------------------------------- specification

\* The render world, the caches and the schedule before the first frame.
InitRender ==
    /\ rview = [v \in Views |-> [ hdr        |-> main[v].hdr,
                                  msaa       |-> main[v].msaa,
                                  projection |-> main[v].projection ]]
    /\ rsettings = [v \in Views |-> None]
    /\ runiform = [v \in Views |-> None]
    /\ uniform_index = [v \in Views |-> None]
    /\ pipeline_id = [v \in Views |-> None]
    /\ prepass = [v \in Views |-> NoTextures]
    /\ view_target = [v \in Views |-> 0]
    /\ entry_texture = [v \in Views |-> 0]
    /\ noise_loaded = FALSE
    /\ view_uniforms_binding = FALSE
    /\ ed_uniforms_binding = FALSE
    /\ pipelines = {}
    /\ pipeline_cache = <<>>
    /\ requests = <<>>
    /\ node = [v \in Views |-> PendingNode]
    /\ phase = RenderSchedule[1]
    /\ frame = 0
    /\ prepared_frame = 0
    /\ edits = 0
    /\ panicked = FALSE
    /\ graph_run = <<>>

\* The state after the plugin is built and the views are spawned.
InitWorld ==
    /\ supported \in BOOLEAN
    /\ main \in [Views -> InitViews]
    /\ plugin = EdgeDetectionPlugin_default
    /\ InitRender

Init ==
    /\ InitWorld
    /\ fn_args = None
    /\ fn_out = None

Next ==
    \/ Extract
    \/ PrepareResources
    \/ prepare_edge_detection_pipelines
    \/ ProcessQueue
    \/ \E v \in Views : RunNode(v)
    \/ \E v \in Views : PassNode(v)
    \/ FinishGraph
    \/ \E v \in Views : EditSettings(v)
    \/ \E v \in Views : EditCamera(v)

Spec == Init /\ [][Next]_vars

\* ------------------------------------------------ frames without an end

\* The render schedule runs again after the last counted frame.  frame,
\* prepared_frame and requests only record history, so they start over; the
\* render world, the specializer and the pipeline cache are kept.
Rewind ==
    /\ ~panicked
    /\ phase = "Extract"
    /\ frame = MaxFrames
    /\ frame' = 0
    /\ prepared_frame' = 0
    /\ requests' = <<>>
    /\ UNCHANGED << supported, main_vars, view_vars, resource_vars, graph_vars,
                    pipelines, pipeline_cache, phase, panicked, fn_vars,
                    graph_run_vars >>

\* The views of a session whose cameras and settings are left alone: the
\* default view, and the default view rendering in HDR.
LiveViews == { DefaultView, [DefaultView EXCEPT !.hdr = TRUE] }

\* As Init, with the two kinds of view and no edit to come.
InitLive ==
    /\ supported \in BOOLEAN
    /\ main \in [Views -> LiveViews]
    /\ plugin = EdgeDetectionPlugin_default
    /\ InitRender
    /\ fn_args = None
    /\ fn_out = None

\* The render schedule alone, frame after frame.
NextLive ==
    \/ Extract
    \/ PrepareResources
    \/ prepare_edge_detection_pipelines
    \/ ProcessQueue
    \/ \E v \in Views : RunNode(v)
    \/ \E v \in Views : PassNode(v)
    \/ FinishGraph
    \/ Rewind

\* The app runs the render schedule every frame: each of its steps, once
\* enabled, is taken.  Nothing obliges the caller to edit, the assets to
\* load or a queued pipeline to finish compiling.
Fairness ==
    /\ WF_vars(Extract)
    /\ WF_vars(Rewind)
    /\ WF_vars(PrepareResources)
    /\ WF_vars(prepare_edge_detection_pipelines)
    /\ WF_vars(ProcessQueue)
    /\ \A v \in Views : WF_vars(RunNode(v)) /\ WF_vars(PassNode(v))
    /\ WF_vars(FinishGraph)

SpecLive == InitLive /\ [][NextLive]_vars /\ Fairness

\* ---------------------------------------------- render graph, on its own

\* The label of the effect's node.
EdgeDetectionLabel == "EdgeDetection"

\* The nodes of the Core3d graph once the plugin is built.
GraphNodes == Node3d \cup {EdgeDetectionLabel}

\* The edges bevy's own plugins add between the nodes of Node3d.
CoreEdges ==
    { <<"EndMainPass", "Bloom">>, <<"Bloom", "DepthOfField">>,
      <<"DepthOfField", "PostProcessing">>, <<"PostProcessing", "Tonemapping">>,
      <<"EndMainPass", "Tonemapping">>, <<"Bloom", "Tonemapping">>,
      <<"DepthOfField", "Tonemapping">>,
      <<"Tonemapping", "Fxaa">>, <<"Fxaa", "EndMainPassPostProcessing">>,
      <<"Tonemapping", "Smaa">>, <<"Smaa", "EndMainPassPostProcessing">>,
      <<"Tonemapping", "EndMainPassPostProcessing">>,
      <<"EndMainPassPostProcessing", "Upscaling">> }

\* A mutant of PluginEdges: only the edge to the downstream node is added.
PluginEdges_BeforeOnly(p) ==
    { <<EdgeDetectionLabel, p.before>> }

\* EdgeDetectionPlugin::build: add_render_graph_edges(Core3d,
\* (Node3d::PostProcessing, EdgeDetectionLabel, self.before)) adds an edge
\* between each two consecutive labels.
PluginEdges(p) ==
    { <<"PostProcessing", EdgeDetectionLabel>>, <<EdgeDetectionLabel, p.before>> }

\* The nodes with an edge into node n.
NodeInputs(n) == { e[1] : e \in { d \in CoreEdges \cup PluginEdges(plugin) : d[2] = n } }

\* The nodes run so far in this frame.
HasRun == { graph_run[i] : i \in DOMAIN graph_run }

\* The plugins an app is built with: the default one, or one naming a node.
PluginChoices == {EdgeDetectionPlugin_default} \cup [ before : Node3d ]

InitGraph ==
    /\ supported = TRUE
    /\ main \in [Views -> InitViews]
    /\ plugin \in PluginChoices
    /\ InitRender
    /\ fn_args = None
    /\ fn_out = None

\* The Core3d graph of a new frame starts to run.
StartGraph ==
    /\ frame < MaxFrames
    /\ frame = 0 \/ HasRun = GraphNodes
    /\ frame' = frame + 1
    /\ graph_run' = <<>>
    /\ UNCHANGED << supported, main_vars, view_vars, resource_vars, graph_vars,
                    cache_vars, phase, prepared_frame, panicked, fn_vars,
                    plugin >>

\* The graph runner runs node n: it has not run in this frame and every node
\* with an edge into it has.
RunGraphNode(n) ==
    /\ frame > 0
    /\ n \notin HasRun
    /\ NodeInputs(n) \subseteq HasRun
    /\ graph_run' = Append(graph_run, n)
    /\ UNCHANGED << supported, main_vars, view_vars, resource_vars, graph_vars,
                    cache_vars, schedule_vars, fn_vars, plugin >>

NextGraph ==
    \/ StartGraph
    \/ \E n \in GraphNodes : RunGraphNode(n)

SpecGraph == InitGraph /\ [][NextGraph]_vars

\* ------------------------------------------- key construction, on its own

\* The settings key construction is applied to: every combination of the
\* three enable flags, with two values of a field the key does not read.
KeySettings ==
    { [EdgeDetection_default EXCEPT !.enable_depth = d, !.enable_normal = n,
                                    !.enable_color = c, !.depth_threshold = t] :
        d \in BOOLEAN, n \in BOOLEAN, c \in BOOLEAN, t \in {500, 1000} }

\* The arguments of EdgeDetectionKey::new.
KeyInputs ==
    [ edge_detection : KeySettings, hdr : BOOLEAN, multisampled : BOOLEAN,
      projection : ProjectionInputs ]

InitKey ==
    /\ InitWorld
    /\ supported
    /\ fn_args \in KeyInputs \X KeyInputs
    /\ fn_out = None

\* EdgeDetectionKey::new is applied to both argument tuples.
ApplyKeyNew ==
    /\ fn_out = None
    /\ fn_out' = << EdgeDetectionKey_new(fn_args[1].edge_detection, fn_args[1].hdr,
                                         fn_args[1].multisampled, fn_args[1].projection),
                    EdgeDetectionKey_new(fn_args[2].edge_detection, fn_args[2].hdr,
                                         fn_args[2].multisampled, fn_args[2].projection) >>
    /\ UNCHANGED << supported, main_vars, view_vars, resource_vars, graph_vars,
                    cache_vars, schedule_vars, fn_args,
                    graph_run_vars >>

SpecKey == InitKey /\ [][ApplyKeyNew]_vars

\* --------------------------------------- uniform conversion, on its own

\* The values a scalar field of the settings is drawn from: its default and
\* one other value.
ScalarInputs ==
    [ depth_threshold        : {1000, 500},
      normal_threshold       : {800, 250},
      color_threshold        : {100, 900},
      depth_thickness        : {1000, 2000},
      normal_thickness       : {1000, 3000},
      color_thickness        : {1000, 1500},
      steep_angle_threshold  : {0, 700},
      steep_angle_multiplier : {300, 1200} ]

\* The colours edge_color is drawn from, in either colour space.
ColorInputs ==
    [ space : ColorSpaces,
      rgba  : { <<0, 0, 0, 1000>>, <<1000, 0, 0, 1000>>, <<500, 200, 40, 500>> } ]

\* The settings the conversion is applied to.
UniformInputs ==
    { [ depth_threshold         |-> sc.depth_threshold,
        normal_threshold        |-> sc.normal_threshold,
        color_threshold         |-> sc.color_threshold,
        depth_thickness         |-> sc.depth_thickness,
        normal_thickness        |-> sc.normal_thickness,
        color_thickness         |-> sc.color_thickness,
        steep_angle_threshold   |-> sc.steep_angle_threshold,
        steep_angle_multiplier  |-> sc.steep_angle_multiplier,
        uv_distortion_frequency |-> d[1],
        uv_distortion_strength  |-> d[2],
        edge_color              |-> c,
        enable_depth            |-> TRUE,
        enable_normal           |-> TRUE,
        enable_color            |-> FALSE ] :
        sc \in ScalarInputs,
        d \in { << <<1000, 1000>>, <<4, 4>> >>, << <<2000, 3000>>, <<10, 20>> >> },
        c \in ColorInputs }

InitUniform ==
    /\ InitWorld
    /\ supported
    /\ fn_args \in { <<ed>> : ed \in UniformInputs }
    /\ fn_out = None

\* EdgeDetectionUniform::from is applied to the same settings twice.
ApplyUniformFrom ==
    /\ fn_out = None
    /\ fn_out' = << EdgeDetectionUniform_from(fn_args[1]),
                    EdgeDetectionUniform_from(fn_args[1]) >>
    /\ UNCHANGED << supported, main_vars, view_vars, resource_vars, graph_vars,
                    cache_vars, schedule_vars, fn_args,
                    graph_run_vars >>

SpecUniform == InitUniform /\ [][ApplyUniformFrom]_vars

\* ------------------------------------------------ specialize, on its own

\* struct EdgeDetectionKey: every key.
EdgeDetectionKey ==
    [ enable_depth : BOOLEAN, enable_normal : BOOLEAN, enable_color : BOOLEAN,
      hdr : BOOLEAN, multisampled : BOOLEAN, projection : ProjectionType ]

InitSpecialize ==
    /\ InitWorld
    /\ supported
    /\ fn_args \in { <<key>> : key \in EdgeDetectionKey }
    /\ fn_out = None

\* EdgeDetectionPipeline::specialize is applied to the key.
ApplySpecialize ==
    /\ fn_out = None
    /\ fn_out' = << EdgeDetectionPipeline_specialize(fn_args[1]) >>
    /\ UNCHANGED << supported, main_vars, view_vars, resource_vars, graph_vars,
                    cache_vars, schedule_vars, fn_args,
                    graph_run_vars >>

SpecSpecialize == InitSpecialize /\ [][ApplySpecialize]_vars

\* ------------------------------------------------------------------ claims

\* The node ran for view v in this frame.
Executed(v) == node[v].state \in {"skip", "done"}

\* The number of draw calls recorded by a sequence of render passes.
RECURSIVE SumDraws(_)
SumDraws(passes) ==
    IF passes = <<>> THEN 0 ELSE Len(Head(passes).draws) + SumDraws(Tail(passes))

DrawCalls(v) == SumDraws(node[v].passes)

\* The pipeline recorded on view v is compiled.
PipelineCompiled(v) == pipeline_cache[pipeline_id[v][1]].state = "Ok"

\* One of the resources the node resolves is missing for view v.
MissingResource(v) ==
    \/ ~PipelineCompiled(v)
    \/ ~prepass[v].depth
    \/ ~prepass[v].normal
    \/ ~noise_loaded
    \/ ~view_uniforms_binding
    \/ ~ed_uniforms_binding

\* The prepare step of the current frame has completed.
Prepared == frame > 0 /\ prepared_frame = frame

\* C1: whenever the node ran for a view while the view's pipeline was not
\* compiled, or its depth or normal prepass texture was absent, or the noise
\* texture was not loaded, or the view-uniform or the effect-uniform binding
\* was unavailable, the node returned Ok and recorded no draw call for that
\* view in that frame.
C1_SkipOnMissingResource ==
    \A v \in Views :
        (Executed(v) /\ MissingResource(v)) =>
            /\ node[v].result = "Ok"
            /\ node[v].state = "skip"
            /\ DrawCalls(v) = 0

\* C1 witness: the node ran for a view whose depth texture alone was missing.
C1_Witness ==
    \E v \in Views :
        /\ Executed(v)
        /\ PipelineCompiled(v)
        /\ ~prepass[v].depth /\ prepass[v].normal
        /\ noise_loaded /\ view_uniforms_binding /\ ed_uniforms_binding
        /\ DrawCalls(v) = 0

\* C2: a run that takes the Skip path leaves the view's colour-buffer state as
\* it found it: the main texture is the one current on entry, the pointer was
\* not flipped, no render pass was opened and no bind group was created.
C2_SkipLeavesViewUnchanged ==
    \A v \in Views :
        node[v].state = "skip" =>
            /\ view_target[v] = entry_texture[v]
            /\ node[v].flips = 0
            /\ node[v].passes = <<>>
            /\ node[v].bind_groups = <<>>

\* C2 witness: a skipped run of a view whose current main texture was b.
C2_Witness ==
    \E v \in Views : node[v].state = "skip" /\ entry_texture[v] = 1

\* C3: after a run that drew, the view's current colour buffer is the
\* destination the pass wrote to, it is not the buffer the pass read as
\* source, and the pointer was flipped exactly once.
C3_CurrentIsDestination ==
    \A v \in Views :
        node[v].state = "done" =>
            /\ Len(node[v].passes) = 1
            /\ MainTexture(v, view_target[v]) = node[v].passes[1].color_attachments[1]
            /\ MainTexture(v, view_target[v]) # node[v].passes[1].bind_group.entries[1]
            /\ node[v].passes[1].bind_group.entries[1] = MainTexture(v, entry_texture[v])
            /\ node[v].flips = 1

\* C3 witness: a run that drew for a view whose current main texture was b.
C3_Witness ==
    \E v \in Views : node[v].state = "done" /\ entry_texture[v] = 1 /\ view_target[v] = 0

\* C4: over all specialize requests of the prepare step, the descriptor of a
\* requested key was queued for compilation at most once, and any two
\* requests with an equal key returned the same handle.
C4_CompileOncePerKey ==
    /\ \A i \in DOMAIN requests :
          Cardinality(CompiledFrom(pipeline_cache,
                                   EdgeDetectionPipeline_specialize(requests[i].key))) <= 1
    /\ \A i, j \in DOMAIN requests :
          requests[i].key = requests[j].key => requests[i].id = requests[j].id

\* C4 witness: an equal key was requested for two views in one frame and
\* again in a later frame, next to a request for a different key.
C4_Witness ==
    /\ \E i, j \in DOMAIN requests :
          /\ requests[i].key = requests[j].key
          /\ requests[i].view # requests[j].view
          /\ requests[i].frame = requests[j].frame
    /\ \E i, j \in DOMAIN requests :
          /\ requests[i].key = requests[j].key
          /\ requests[i].frame # requests[j].frame
    /\ \E i, j \in DOMAIN requests : requests[i].key # requests[j].key

\* Two argument tuples of key construction agree on every axis of the key.
SameKeyAxes(a, b) ==
    /\ a.edge_detection.enable_depth = b.edge_detection.enable_depth
    /\ a.edge_detection.enable_normal = b.edge_detection.enable_normal
    /\ a.edge_detection.enable_color = b.edge_detection.enable_color
    /\ a.hdr = b.hdr
    /\ a.multisampled = b.multisampled
    /\ a.projection = b.projection

\* C5: the keys constructed from two argument tuples are equal exactly when the
\* tuples agree on enable_depth, enable_normal, enable_color, hdr,
\* multisampled and the projection; the other settings fields do not matter.
\* (A custom projection yields no key to compare: see C6.)
C5_KeyInjective ==
    (fn_out # None /\ fn_out[1] # None /\ fn_out[2] # None) =>
        (SameKeyAxes(fn_args[1], fn_args[2]) <=> fn_out[1][1] = fn_out[2][1])

\* C5 witness: two argument tuples that differ in depth_threshold alone gave
\* the same key.
C5_Witness ==
    /\ fn_out # None
    /\ fn_args[1].edge_detection.depth_threshold # fn_args[2].edge_detection.depth_threshold
    /\ SameKeyAxes(fn_args[1], fn_args[2])
    /\ fn_out[1] # None
    /\ fn_out[1] = fn_out[2]

\* The specialize requests of the current frame.
FrameRequests == { i \in DOMAIN requests : requests[i].frame = frame }

\* C6: every specialize request of the frame carries a key whose projection
\* is None for an absent projection, Perspective for a perspective one and
\* Orthographic for an orthographic one, and none was made for a view with a
\* custom projection; the prepare step never completes with such a view, it
\* panics instead.
C6_ProjectionMapping ==
    /\ \A i \in FrameRequests :
          LET proj == rview[requests[i].view].projection
              kind == requests[i].key.projection
          IN  /\ proj = None => kind = "None"
              /\ proj = Some("Perspective") => kind = "Perspective"
              /\ proj = Some("Orthographic") => kind = "Orthographic"
              /\ proj # Some("Custom")
    /\ Prepared =>
          \A v \in Views : rsettings[v] # None => rview[v].projection # Some("Custom")
    /\ panicked =>
          \E v \in Views :
              /\ rsettings[v] # None
              /\ rview[v].projection = Some("Custom")
              /\ \A i \in FrameRequests : requests[i].view # v

\* C6 witness: the prepare step panicked on a view with a custom projection
\* after it had made the request of another view.
C6_Witness ==
    /\ panicked
    /\ FrameRequests # {}
    /\ \E v \in Views : rview[v].projection = Some("Custom")

\* C7: with the capability gate disabled no view ever carries an extracted
\* uniform and no render pass or draw is ever recorded for any view.
C7_GateDisabled ==
    ~supported =>
        \A v \in Views :
            /\ runiform[v] = None
            /\ node[v].state # "done"
            /\ node[v].passes = <<>>
            /\ DrawCalls(v) = 0

\* C7 witness: gate disabled, second frame, every other resource available,
\* and the render graph has visited every view.
C7_Witness ==
    /\ ~supported
    /\ frame >= 2
    /\ phase = "Render"
    /\ noise_loaded /\ view_uniforms_binding /\ ed_uniforms_binding
    /\ \A v \in Views : node[v].state # "pending"

\* The extracted settings of view v have no channel enabled.
AllDisabled(v) ==
    /\ rsettings[v] # None
    /\ ~rsettings[v][1].enable_depth
    /\ ~rsettings[v][1].enable_normal
    /\ ~rsettings[v][1].enable_color

\* C8: for a view whose settings enable no channel, the prepare step still
\* builds the key and requests a pipeline, the pipeline's descriptor carries
\* none of the three channel defines, and once the graph has visited the view
\* with the pipeline compiled and every resource available, the node has
\* flipped the colour buffer once and issued the draw.
C8_AllDisabledStillDraws ==
    \A v \in Views :
        (Prepared /\ AllDisabled(v)) =>
            /\ \E i \in FrameRequests :
                  /\ requests[i].view = v
                  /\ ~requests[i].key.enable_depth
                  /\ ~requests[i].key.enable_normal
                  /\ ~requests[i].key.enable_color
                  /\ pipeline_id[v] = Some(requests[i].id)
            /\ pipeline_id[v] # None
            /\ pipeline_id[v] # None =>
                  LET defs == pipeline_cache[pipeline_id[v][1]].descriptor.shader_defs
                  IN  \A k \in DOMAIN defs :
                          defs[k] \notin {"ENABLE_DEPTH", "ENABLE_NORMAL", "ENABLE_COLOR"}
            /\ (pipeline_id[v] # None /\ node[v].state # "pending"
                /\ PipelineCompiled(v) /\ prepass[v].depth /\ prepass[v].normal
                /\ noise_loaded /\ view_uniforms_binding /\ ed_uniforms_binding) =>
                  /\ node[v].state = "done"
                  /\ node[v].flips = 1
                  /\ view_target[v] # entry_texture[v]
                  /\ DrawCalls(v) = 1

\* C8 witness: the node drew for a view whose settings enable no channel.
C8_Witness ==
    \E v \in Views : Prepared /\ AllDisabled(v) /\ node[v].state = "done"

\* Views v and w carry the same settings, Msaa and projection and differ in
\* their HDR flag.
DifferInHdrOnly(v, w) ==
    /\ rsettings[v] # None
    /\ rsettings[v] = rsettings[w]
    /\ rview[v].msaa = rview[w].msaa
    /\ rview[v].projection = rview[w].projection
    /\ rview[v].hdr # rview[w].hdr

\* The specializer's entries for the settings, Msaa and projection of view v,
\* whatever their HDR flag.
EntriesFor(v) ==
    { e \in pipelines :
        /\ e.key.enable_depth = rsettings[v][1].enable_depth
        /\ e.key.enable_normal = rsettings[v][1].enable_normal
        /\ e.key.enable_color = rsettings[v][1].enable_color
        /\ e.key.multisampled = (rview[v].msaa # "Off")
        /\ e.key.projection = IF rview[v].projection = None
                              THEN "None"
                              ELSE rview[v].projection[1] }

\* C9: once the prepare step has processed two views that differ in their HDR
\* flag only, the specializer holds exactly two entries for them and the two
\* views carry different pipeline handles.
C9_HdrDistinctPipelines ==
    Prepared =>
        \A v, w \in Views :
            DifferInHdrOnly(v, w) =>
                /\ pipeline_id[v] # None /\ pipeline_id[w] # None
                /\ pipeline_id[v] # pipeline_id[w]
                /\ Cardinality(EntriesFor(v)) = 2
                /\ { e.id : e \in EntriesFor(v) } = { pipeline_id[v][1], pipeline_id[w][1] }

\* C9 witness: the prepare step has processed two views that differ in their
\* HDR flag only.
C9_Witness ==
    /\ Prepared
    /\ \E v, w \in Views : DifferInHdrOnly(v, w)

\* C10: whenever the node has run for some view in a frame, the prepare step
\* of that frame has completed.
C10_PrepareBeforeExecute ==
    \A v \in Views : Executed(v) => Prepared

\* C10 witness: the node drew for a view in the second frame.
C10_Witness ==
    \E v \in Views : node[v].state = "done" /\ frame = 2

\* Everything the node resolves outside the view's own textures is available
\* for view v: its pipeline is compiled, the noise texture is loaded and both
\* uniform buffers have a binding.
Ready(v) ==
    /\ pipeline_id[v] # None
    /\ PipelineCompiled(v)
    /\ noise_loaded
    /\ view_uniforms_binding
    /\ ed_uniforms_binding

\* Whenever the node ran for view v, both prepass textures were there.
PrepassPresent(v) == Executed(v) => (prepass[v].depth /\ prepass[v].normal)

\* View v was prepared again in the current frame.
Reprepared(v) == \E i \in FrameRequests : requests[i].view = v

\* C11: a miss is retried with no bookkeeping.  (1) A run that finds every
\* resource available draws, whatever happened in earlier frames.  (2) A view
\* skipped in a frame is prepared again and its node runs again in the next
\* frame, unless the schedule has panicked.  (3) If from some point on the
\* view's pipeline is compiled, the noise texture and the uniform bindings
\* are available and the prepass textures are there whenever the node runs,
\* and the schedule keeps running, then the effect is eventually drawn for
\* the view.
C11_TransientMissRetried ==
    /\ [](\A v \in Views : (Executed(v) /\ ~MissingResource(v)) => node[v].state = "done")
    /\ \A v \in Views : \A f \in 1..MaxFrames :
          (node[v].state = "skip" /\ frame = f)
              ~> (panicked \/ (frame # f /\ Reprepared(v) /\ Executed(v)))
    /\ \A v \in Views :
          (<>[]Ready(v) /\ <>[]PrepassPresent(v) /\ []~panicked)
              => <>(node[v].state = "done")

\* C11 witness: in the second frame a view was prepared again with the handle
\* of the first frame, its pipeline still not compiled (so the first frame
\* skipped it too), and its node ran again and skipped again.
C11_Witness ==
    \E v \in Views :
        /\ frame = 2
        /\ node[v].state = "skip"
        /\ ~PipelineCompiled(v)
        /\ \E i, j \in DOMAIN requests :
              /\ requests[i].view = v /\ requests[i].frame = 1
              /\ requests[j].view = v /\ requests[j].frame = 2
              /\ requests[i].id = requests[j].id

\* The linear value of an sRGB component, from the sRGB transfer function:
\* 0 -> 0, 0.04 -> 0.003, 0.2 -> 0.033, 0.5 -> 0.214, 1 -> 1.
SrgbToLinear == (0 :> 0) @@ (40 :> 3) @@ (200 :> 33) @@ (500 :> 214) @@ (1000 :> 1000)

\* C12: the uniform converted from settings has the declared fields and no
\* other; its eight scalars are those of the settings; its distortion vector
\* is (frequency.x, frequency.y, strength.x, strength.y); its colour is the
\* linear form of edge_color (the components themselves for a linear colour,
\* the sRGB-decoded components and the unchanged alpha for an sRGB one); and
\* converting the same settings twice gives the same uniform.
C12_UniformConversion ==
    fn_out # None =>
        LET ed == fn_args[1]
            u  == fn_out[1]
        IN  /\ DOMAIN u = { "depth_threshold", "normal_threshold", "color_threshold",
                            "depth_thickness", "normal_thickness", "color_thickness",
                            "steep_angle_threshold", "steep_angle_multiplier",
                            "uv_distortion", "edge_color" }
            /\ u.depth_threshold = ed.depth_threshold
            /\ u.normal_threshold = ed.normal_threshold
            /\ u.color_threshold = ed.color_threshold
            /\ u.depth_thickness = ed.depth_thickness
            /\ u.normal_thickness = ed.normal_thickness
            /\ u.color_thickness = ed.color_thickness
            /\ u.steep_angle_threshold = ed.steep_angle_threshold
            /\ u.steep_angle_multiplier = ed.steep_angle_multiplier
            /\ u.uv_distortion = << ed.uv_distortion_frequency[1], ed.uv_distortion_frequency[2],
                                    ed.uv_distortion_strength[1], ed.uv_distortion_strength[2] >>
            /\ ed.edge_color.space = "LinearRgba" => u.edge_color = ed.edge_color.rgba
            /\ ed.edge_color.space = "Srgba" =>
                  /\ \A k \in 1..3 : u.edge_color[k] = SrgbToLinear[ed.edge_color.rgba[k]]
                  /\ u.edge_color[4] = ed.edge_color.rgba[4]
            /\ fn_out[1] = fn_out[2]

\* C12 witness: settings that differ from the default in a scalar and in the
\* distortion vectors and carry a half-transparent sRGB colour were converted.
C12_Witness ==
    /\ fn_out # None
    /\ fn_args[1].depth_threshold = 500
    /\ fn_args[1].uv_distortion_frequency = <<2000, 3000>>
    /\ fn_args[1].edge_color = [space |-> "Srgba", rgba |-> <<500, 200, 40, 500>>]
    /\ fn_out[1].edge_color = <<214, 33, 3, 500>>
    /\ fn_out[1].uv_distortion = <<2000, 3000, 10, 20>>

\* The position of node n in the run of the graph (0 when it has not run).
RunIndex(n) ==
    IF n \in HasRun THEN CHOOSE i \in DOMAIN graph_run : graph_run[i] = n ELSE 0

\* C13: the plugin built with no node named has Fxaa as its downstream node;
\* and in every frame, when the effect's node runs the PostProcessing node has
\* already run and the downstream node of the plugin has not, and when the
\* downstream node runs the effect's node has already run.
C13_GraphOrder ==
    /\ EdgeDetectionPlugin_default.before = "Fxaa"
    /\ plugin.before \in Node3d
    /\ EdgeDetectionLabel \in HasRun =>
          /\ "PostProcessing" \in HasRun
          /\ RunIndex("PostProcessing") < RunIndex(EdgeDetectionLabel)
          /\ plugin.before \in HasRun =>
                RunIndex(EdgeDetectionLabel) < RunIndex(plugin.before)
    /\ plugin.before \in HasRun => EdgeDetectionLabel \in HasRun

\* C13 witness: with the default plugin the graph of the second frame has run
\* Tonemapping and Smaa, then the effect's node, then Fxaa.
C13_Witness ==
    /\ plugin = EdgeDetectionPlugin_default
    /\ frame = 2
    /\ HasRun = GraphNodes
    /\ RunIndex("Smaa") < RunIndex(EdgeDetectionLabel)
    /\ RunIndex(EdgeDetectionLabel) + 1 = RunIndex("Fxaa")

\* The settings st have the documented default values (f32 in thousandths).
HasDefaultValues(st) ==
    /\ st.depth_threshold = 1000
    /\ st.normal_threshold = 800
    /\ st.color_threshold = 100
    /\ st.depth_thickness = 1000
    /\ st.normal_thickness = 1000
    /\ st.color_thickness = 1000
    /\ st.steep_angle_threshold = 0
    /\ st.steep_angle_multiplier = 300
    /\ st.uv_distortion_frequency = <<1000, 1000>>
    /\ st.uv_distortion_strength = <<4, 4>>
    /\ Color_into_LinearRgba(st.edge_color) = <<0, 0, 0, 1000>>
    /\ st.enable_depth
    /\ st.enable_normal
    /\ ~st.enable_color

\* C14: as long as the caller has edited nothing, every view carries the
\* default settings record: depth_threshold 1.0, normal_threshold 0.8,
\* color_threshold 0.1, the three thicknesses 1.0, steep_angle_threshold 0.0,
\* steep_angle_multiplier 0.3, distortion frequency (1, 1), distortion
\* strength (0.004, 0.004), an opaque black edge colour, depth and normal
\* enabled and colour disabled; and so do the settings extracted from it.
C14_DefaultSettings ==
    edits = 0 =>
        \A v \in Views :
            /\ HasDefaultValues(main[v].settings)
            /\ rsettings[v] # None => HasDefaultValues(rsettings[v][1])

\* C14 witness: the default settings of a view were extracted and its node
\* drew with them.
C14_Witness ==
    /\ edits = 0
    /\ \E v \in Views :
          /\ rsettings[v] = Some(EdgeDetection_default)
          /\ node[v].state = "done"

\* The elements of a sequence.
Range(seq) == { seq[i] : i \in DOMAIN seq }

\* The defines a key calls for.
ExpectedDefs(key) ==
    { d \in { "ENABLE_DEPTH", "ENABLE_NORMAL", "ENABLE_COLOR", "MULTISAMPLED",
              "VIEW_PROJECTION_PERSPECTIVE", "VIEW_PROJECTION_ORTHOGRAPHIC" } :
        \/ d = "ENABLE_DEPTH" /\ key.enable_depth
        \/ d = "ENABLE_NORMAL" /\ key.enable_normal
        \/ d = "ENABLE_COLOR" /\ key.enable_color
        \/ d = "MULTISAMPLED" /\ key.multisampled
        \/ d = "VIEW_PROJECTION_PERSPECTIVE" /\ key.projection = "Perspective"
        \/ d = "VIEW_PROJECTION_ORTHOGRAPHIC" /\ key.projection = "Orthographic" }

\* C15: the descriptor specialized from a key has the HDR target format
\* exactly when key.hdr and the default format otherwise, the single layout
\* with msaa exactly when key.multisampled and the one without otherwise, and
\* as defines exactly ENABLE_DEPTH, ENABLE_NORMAL, ENABLE_COLOR, MULTISAMPLED,
\* VIEW_PROJECTION_PERSPECTIVE and VIEW_PROJECTION_ORTHOGRAPHIC for the flags
\* and the projection of the key, each once, and none for projection None.
C15_SpecializeDescriptor ==
    fn_out # None =>
        LET key  == fn_args[1]
            desc == fn_out[1]
        IN  /\ (desc.format = "TEXTURE_FORMAT_HDR") <=> key.hdr
            /\ (desc.format = "bevy_default") <=> ~key.hdr
            /\ Len(desc.layout) = 1
            /\ (desc.layout[1] = "layout_with_msaa") <=> key.multisampled
            /\ (desc.layout[1] = "layout_without_msaa") <=> ~key.multisampled
            /\ Range(desc.shader_defs) = ExpectedDefs(key)
            /\ Len(desc.shader_defs) = Cardinality(ExpectedDefs(key))

\* C15 witness: a key with HDR, multisampling, the colour channel alone and
\* no projection was specialized.
C15_Witness ==
    /\ fn_out # None
    /\ fn_args[1] = [ enable_depth |-> FALSE, enable_normal |-> FALSE,
                      enable_color |-> TRUE, hdr |-> TRUE, multisampled |-> TRUE,
                      projection |-> "None" ]
    /\ fn_out[1].shader_defs = << "ENABLE_COLOR", "MULTISAMPLED" >>
    /\ fn_out[1].format = "TEXTURE_FORMAT_HDR"

\* C16: in a run that drew, the one bind group built by the run has as colour
\* input the source of the run's own post-process write (the main texture
\* that was current when the node was reached), the pass's only colour
\* attachment is the destination of that write, the two are different
\* textures of the view, and the pass uses the bind group built by the run.
C16_ReadsSourceWritesDestination ==
    \A v \in Views :
        node[v].state = "done" =>
            LET write == post_process_write(v, entry_texture[v])
            IN  /\ Len(node[v].bind_groups) = 1
                /\ Len(node[v].passes) = 1
                /\ node[v].bind_groups[1].entries[1] = write.source
                /\ node[v].passes[1].color_attachments = << write.destination >>
                /\ write.source # write.destination
                /\ write.source.view = v /\ write.destination.view = v
                /\ node[v].passes[1].bind_group = node[v].bind_groups[1]
                /\ node[v].passes[1].bind_group.entries[1]
                       \notin Range(node[v].passes[1].color_attachments)

\* C16 witness: in the second frame a run drew for a view whose current main
\* texture was b; it read b and wrote a.
C16_Witness ==
    \E v \in Views :
        /\ frame = 2
        /\ node[v].state = "done"
        /\ node[v].bind_groups[1].entries[1] = MainTexture(v, 1)
        /\ node[v].passes[1].color_attachments = << MainTexture(v, 0) >>

\* C17: a run that drew opened exactly one render pass, whose only colour
\* attachment is the destination of the run's post-process write and which
\* has no depth/stencil attachment; the pass is set to the compiled pipeline
\* of the handle the view carries; and it recorded exactly one draw, of
\* vertices 0..3 and instances 0..1, not indexed.
C17_OnePassOneDraw ==
    \A v \in Views :
        node[v].state = "done" =>
            /\ Len(node[v].passes) = 1
            /\ LET pass == node[v].passes[1]
               IN  /\ pass.color_attachments =
                          << post_process_write(v, entry_texture[v]).destination >>
                   /\ pass.depth_stencil_attachment = None
                   /\ pipeline_id[v] # None
                   /\ pass.pipeline = pipeline_id[v][1]
                   /\ pipeline_cache[pass.pipeline].state = "Ok"
                   /\ Len(pass.draws) = 1
                   /\ pass.draws[1].vertices = <<0, 3>>
                   /\ pass.draws[1].instances = <<0, 1>>
                   /\ ~pass.draws[1].indexed
            /\ DrawCalls(v) = 1

\* C17 witness: both views drew in one frame, with different pipelines.
C17_Witness ==
    \E v, w \in Views :
        /\ node[v].state = "done"
        /\ node[w].state = "done"
        /\ node[v].passes[1].pipeline # node[w].passes[1].pipeline

\* The slot of the bind-group layout that a bound resource other than the
\* colour source belongs in.
SlotOf(resource) ==
    CASE resource = "depth_prepass"         -> "depth"
      [] resource = "normal_prepass"        -> "normal"
      [] resource = "linear_sampler"        -> "linear_sampler"
      [] resource = "noise_texture"         -> "noise_texture"
      [] resource = "noise_sampler"         -> "noise_sampler"
      [] resource = "view_uniforms_binding" -> "view_uniform"
      [] resource = "ed_uniform_binding"    -> "effect_uniform"

\* C18: in a run that drew, the layout the bind group was built with is the
\* layout in the descriptor of the pipeline the pass is set to, and the bind
\* group binds 8 resources, each in its slot of the layout: colour source,
\* depth, normal, linear sampler, noise texture, noise sampler, view uniform,
\* effect uniform.
C18_LayoutMatchesPipeline ==
    \A v \in Views :
        node[v].state = "done" =>
            LET pass == node[v].passes[1]
            IN  /\ pipeline_cache[pass.pipeline].descriptor.layout
                       = << pass.bind_group.layout >>
                /\ pass.bind_group.layout = bind_group_layout(rview[v].msaa # "Off")
                /\ Len(pass.bind_group.entries) = 8
                /\ Len(BindGroupLayoutSlots) = 8
                /\ BindGroupLayoutSlots[1] = "color"
                /\ pass.bind_group.entries[1] \in { MainTexture(v, i) : i \in {0, 1} }
                /\ \A k \in 2..8 :
                       SlotOf(pass.bind_group.entries[k]) = BindGroupLayoutSlots[k]

\* C18 witness: a run drew for a multisampled view after the caller had
\* switched the camera's Msaa off during the frame; the bind group and the
\* pipeline both have the layout with msaa.
C18_Witness ==
    \E v \in Views :
        /\ node[v].state = "done"
        /\ rview[v].msaa # "Off"
        /\ main[v].msaa = "Off"
        /\ node[v].passes[1].bind_group.layout = "layout_with_msaa"
        /\ pipeline_cache[node[v].passes[1].pipeline].descriptor.layout
               = << "layout_with_msaa" >>

\* The specialize requests of the current frame for view v.
FrameRequestsOf(v) == { i \in FrameRequests : requests[i].view = v }

\* C19 as stated: the handle is on the view for the current frame only, that
\* is, a view never carries a handle that the prepare step of the current
\* frame did not record.
C19_HandleForThisFrameOnly ==
    \A v \in Views :
        pipeline_id[v] # None =>
            \E i \in FrameRequestsOf(v) : pipeline_id[v] = Some(requests[i].id)

\* C19, amended: the handle stays on the view from one frame to the next, and
\* the prepare step of every frame overwrites it before the node runs:
\* whenever the node has run for a view in a frame, the handle on the view
\* (the one the node resolved its pipeline from) is the one the prepare step
\* of that frame got for the key of the view's extracted enable flags, HDR
\* flag, Msaa and projection, and a pass recorded by the node is set to it.
C19_NodeUsesThisFramesHandle ==
    \A v \in Views :
        Executed(v) =>
            /\ pipeline_id[v] # None
            /\ rsettings[v] # None
            /\ Cardinality(FrameRequestsOf(v)) = 1
            /\ \A i \in FrameRequestsOf(v) :
                  /\ pipeline_id[v] = Some(requests[i].id)
                  /\ requests[i].key.enable_depth = rsettings[v][1].enable_depth
                  /\ requests[i].key.enable_normal = rsettings[v][1].enable_normal
                  /\ requests[i].key.enable_color = rsettings[v][1].enable_color
                  /\ requests[i].key.hdr = rview[v].hdr
                  /\ requests[i].key.multisampled = (rview[v].msaa # "Off")
                  /\ \A k \in DOMAIN node[v].passes :
                        node[v].passes[k].pipeline = requests[i].id

\* C19 witness: the node drew for a view in the second frame with a handle
\* that differs from the one recorded for the view in the first frame.
C19_Witness ==
    \E v \in Views :
        /\ frame = 2
        /\ node[v].state = "done"
        /\ \E i \in DOMAIN requests :
              /\ requests[i].view = v
              /\ requests[i].frame = 1
              /\ requests[i].id # node[v].passes[1].pipeline

\* The uniform of view v and the key of its pipeline request of this frame
\* are derived from the settings extracted for v.
FromSnapshot(v) ==
    /\ rsettings[v] # None => runiform[v] = Some(EdgeDetectionUniform_from(rsettings[v][1]))
    /\ \A i \in FrameRequestsOf(v) :
          /\ rsettings[v] # None
          /\ requests[i].key.enable_depth = rsettings[v][1].enable_depth
          /\ requests[i].key.enable_normal = rsettings[v][1].enable_normal
          /\ requests[i].key.enable_color = rsettings[v][1].enable_color

\* C20: (1) in every state the uniform of a view and the key requested for it
\* in the current frame are derived from the same extracted settings; (2) the
\* extracted settings and the uniform change in no step that stays within a
\* frame, whatever the caller edits; (3) the step that starts a frame takes
\* the snapshot: with the effect supported, the extracted settings are the
\* ones the caller's view carried at that step.
C20_SettingsFixedPerFrame ==
    /\ [](\A v \in Views : FromSnapshot(v))
    /\ [][frame' = frame => (rsettings' = rsettings /\ runiform' = runiform)]_vars
    /\ [][(frame' # frame /\ supported) =>
             \A v \in Views :
                 /\ rsettings'[v] = Some(main[v].settings)
                 /\ runiform'[v] = Some(EdgeDetectionUniform_from(main[v].settings))]_vars

\* C20 witness: the caller changed the enable flags of a view after the
\* frame's snapshot; the key requested for the view in this frame carries the
\* flags of the snapshot and the node drew.
C20_Witness ==
    \E v \in Views :
        /\ rsettings[v] # None
        /\ main[v].settings.enable_depth # rsettings[v][1].enable_depth
        /\ node[v].state = "done"
        /\ \E i \in FrameRequestsOf(v) :
              requests[i].key.enable_depth = rsettings[v][1].enable_depth

\* C21: the specializer's cache only grows.  In every step each entry of the
\* cache is kept with its key and its handle, and each pipeline queued with
\* the pipeline cache keeps its place and its descriptor; and in every state
\* the cache holds one entry per key, every key is an EdgeDetectionKey, of
\* which there are 2^5 x 3 = 96, and so the cache holds at most 96 entries.
C21_CacheOnlyGrows ==
    /\ [][ /\ pipelines \subseteq pipelines'
           /\ Len(pipeline_cache) <= Len(pipeline_cache')
           /\ \A i \in DOMAIN pipeline_cache :
                 pipeline_cache'[i].descriptor = pipeline_cache[i].descriptor ]_vars
    /\ [] /\ \A e, f \in pipelines : e.key = f.key => e = f
          /\ \A e \in pipelines : e.key \in EdgeDetectionKey
          /\ Cardinality(EdgeDetectionKey) = 96
          /\ Cardinality(pipelines) <= Cardinality(EdgeDetectionKey)

\* C21 witness: in the second frame the cache holds the entry made for a
\* request of the first frame, with the handle that request got, next to an
\* entry made since.
C21_Witness ==
    /\ frame = 2
    /\ Cardinality(pipelines) = 2
    /\ \E i \in DOMAIN requests :
          /\ requests[i].frame = 1
          /\ [key |-> requests[i].key, id |-> requests[i].id] \in pipelines
    /\ \E j \in DOMAIN requests :
          /\ requests[j].frame = 2
          /\ \A i \in DOMAIN requests : requests[i].frame = 1 => requests[i].key # requests[j].key

\* The outcome of the node's run for view v and the state it left v's colour
\* buffers in are what v's own inputs and the shared, read-only resources
\* determine.
OwnOutcome(v) ==
    /\ node[v].state = "done" <=> ~MissingResource(v)
    /\ view_target[v] = IF MissingResource(v) THEN entry_texture[v] ELSE 1 - entry_texture[v]
    /\ node[v].flips = IF MissingResource(v) THEN 0 ELSE 1

\* C22: the node's run for one view is independent of the other views.
\* (1) A step in which the node runs for a view leaves the record, the
\* colour buffers and the prepass textures of every other view as they were.
\* (2) Whatever the order in which the views were visited, a view the node
\* ran for ended as its own inputs determine; a pass recorded for it reads
\* and writes textures of that view only and carries that view's own
\* view-uniform offset and effect-uniform index as dynamic offsets; and two
\* views that drew share neither texture nor offset.
C22_ViewsIndependent ==
    /\ [][\A v \in Views :
             (node[v].state = "pending" /\ node'[v].state # "pending") =>
                 \A w \in Views \ {v} :
                     /\ node'[w] = node[w]
                     /\ view_target'[w] = view_target[w]
                     /\ entry_texture'[w] = entry_texture[w]
                     /\ prepass'[w] = prepass[w]]_vars
    /\ [] \A v \in Views :
             Executed(v) =>
                 /\ OwnOutcome(v)
                 /\ \A k \in DOMAIN node[v].passes :
                       LET pass == node[v].passes[k]
                       IN  /\ \A a \in DOMAIN pass.color_attachments :
                                 pass.color_attachments[a].view = v
                           /\ pass.bind_group.entries[1].view = v
                           /\ pass.dynamic_offsets[2] = uniform_index[v][1]
                           /\ \A w \in Views \ {v} : \A j \in DOMAIN node[w].passes :
                                 /\ pass.dynamic_offsets[1] # node[w].passes[j].dynamic_offsets[1]
                                 /\ pass.dynamic_offsets[2] # node[w].passes[j].dynamic_offsets[2]
                                 /\ pass.color_attachments # node[w].passes[j].color_attachments

\* C22 witness: in one frame the node skipped for the first view, whose
\* prepass textures were missing, and drew for the second.
C22_Witness ==
    /\ node[1].state = "skip"
    /\ ~prepass[1].depth
    /\ node[2].state = "done"
    /\ view_target[1] = entry_texture[1]
    /\ view_target[2] # entry_texture[2]

\* C23: neither step waits.  (1) Once the prepare step of a frame has
\* completed, every view with extracted settings carries a handle, whether
\* or not its pipeline is compiled.  (2) The prepare step, once reached,
\* completes (or panics on a custom projection).  (3) In every frame the
\* node's visit of a view ends, in Skip or Done when the node runs, and the
\* render graph of the frame finishes, even if no pipeline ever compiles and
\* no resource ever arrives.
C23_NeverWaits ==
    /\ [](Prepared => \A v \in Views : rsettings[v] # None => pipeline_id[v] # None)
    /\ (phase = "Prepare") ~> (phase = "ProcessQueue" \/ panicked)
    /\ \A v \in Views :
          (phase = "Render" /\ node[v].state = "pending")
              ~> (node[v].state \in {"skip", "done", "norun"})
    /\ [](\A v \in Views : (node[v].state # "pending" /\ ViewQuery_matches(v)) =>
                               node[v].state \in {"skip", "done"})
    /\ (phase = "Render") ~> (phase = "Extract")

\* C23 witness: the first frame is over; the prepare step gave every view a
\* handle whose pipeline is still queued for compilation, and the node ran
\* for every view and skipped.
C23_Witness ==
    /\ frame = 1
    /\ phase = "Extract"
    /\ \A v \in Views :
          /\ pipeline_id[v] # None
          /\ pipeline_cache[pipeline_id[v][1]].state = "Queued"
          /\ node[v].state = "skip"

====
